---------------------------- MODULE Spec2Model ----------------------------
(***************************************************************************)
(* Model of two headers of MIRTK's Common module:                          *)
(*   mirtk/EnergyMeasure.h  the EnergyMeasure enumeration with its         *)
(*                          ToString / FromString conversions;             *)
(*   mirtk/Object.h         the ParameterList helpers (Find, Contains,     *)
(*                          Get, Insert, Remove) and Object::Parameter.    *)
(*                                                                         *)
(* A C string or std::string is a sequence of one-character strings, so    *)
(* that strcmp, operator== and ::tolower act on characters.                *)
(***************************************************************************)
EXTENDS Integers, Sequences, FiniteSets

VARIABLES
  value,     \* the caller's EnergyMeasure variable: FromString's output argument
  params,    \* the caller's ParameterList, handed to the list helpers
  obj,       \* an Object: its class and the attributes of that class
  heap,      \* the instances created with new: how often each was deleted
  call       \* the last call: its operation, its arguments and what it returned

vars == <<value, params, obj, heap, call>>

\* The value of obj where no Object is involved.
NoObject == [class |-> "none"]

\* The value of heap where nothing is created with new.
NoHeap == <<>>

(***************************************************************************)
(* enum EnergyMeasure (EnergyMeasure.h:31-105): the enumerators in         *)
(* declaration order, numbered from 0 as the compiler numbers them.        *)
(***************************************************************************)
EM_Unknown == 0
SIM_Begin == 1
EM_JE == 2
EM_CC == 3
EM_MI == 4
EM_NMI == 5
EM_SSD == 6
EM_CR_XY == 7
EM_CR_YX == 8
EM_LC == 9
EM_K == 10
EM_ML == 11
EM_NGF_COS == 12
EM_LNCC == 13
SIM_End == 14
PDM_Begin == 15
EM_FRE == 16
EM_CorrespondenceDistance == 17
EM_CurrentsDistance == 18
EM_VarifoldDistance == 19
PDM_End == 20
EFT_Begin == 21
EM_BalloonForce == 22
EM_ImageEdgeForce == 23
EM_ImplicitSurfaceDistance == 24
EM_ImplicitSurfaceSpringForce == 25
EFT_End == 26
IFT_Begin == 27
EM_MetricDistortion == 28
EM_Stretching == 29
EM_Curvature == 30
EM_QuadraticCurvature == 31
EM_NonSelfIntersection == 32
EM_RepulsiveForce == 33
EM_InflationForce == 34
EM_SpringForce == 35
IFT_End == 36
CM_Begin == 37
EM_VolumePreservation == 38
EM_TopologyPreservation == 39
EM_Sparsity == 40
EM_BendingEnergy == 41
EM_L0Norm == 42
EM_L1Norm == 43
EM_L2Norm == 44
EM_SqLogDetJac == 45
EM_MinDetJac == 46
CM_End == 47
EM_Last == 48

EnergyMeasure == EM_Unknown .. EM_Last

\* The five categories, each delimited by its Begin and End sentinel.
Categories ==
  { <<SIM_Begin, SIM_End>>, <<PDM_Begin, PDM_End>>, <<EFT_Begin, EFT_End>>,
    <<IFT_Begin, IFT_End>>, <<CM_Begin, CM_End>> }

\* The selectable values: strictly between a category's Begin and End.
Selectable ==
  { e \in EnergyMeasure : \E c \in Categories : c[1] < e /\ e < c[2] }

(***************************************************************************)
(* ::tolower and ::toupper of <cctype> in the "C" locale: the letters A-Z  *)
(* and a-z map to each other, every other character to itself.             *)
(***************************************************************************)
LowerOf ==
  [A |-> "a", B |-> "b", C |-> "c", D |-> "d", E |-> "e", F |-> "f", G |-> "g",
   H |-> "h", I |-> "i", J |-> "j", K |-> "k", L |-> "l", M |-> "m", N |-> "n",
   O |-> "o", P |-> "p", Q |-> "q", R |-> "r", S |-> "s", T |-> "t", U |-> "u",
   V |-> "v", W |-> "w", X |-> "x", Y |-> "y", Z |-> "z"]

UpperOf ==
  [a |-> "A", b |-> "B", c |-> "C", d |-> "D", e |-> "E", f |-> "F", g |-> "G",
   h |-> "H", i |-> "I", j |-> "J", k |-> "K", l |-> "L", m |-> "M", n |-> "N",
   o |-> "O", p |-> "P", q |-> "Q", r |-> "R", s |-> "S", t |-> "T", u |-> "U",
   v |-> "V", w |-> "W", x |-> "X", y |-> "Y", z |-> "Z"]

tolower(ch) == IF ch \in DOMAIN LowerOf THEN LowerOf[ch] ELSE ch

toupper(ch) == IF ch \in DOMAIN UpperOf THEN UpperOf[ch] ELSE ch

\* A text with every letter folded to lower case: two texts differ only in
\* letter case exactly when they are different and fold to the same text.
FoldCase(s) == [i \in 1..Len(s) |-> tolower(s[i])]

UpperCase(s) == [i \in 1..Len(s) |-> toupper(s[i])]

\* The first character's case changed, the rest kept.
FlipFirst(s) ==
  IF s = <<>> THEN s
  ELSE [s EXCEPT ![1] = IF tolower(s[1]) = s[1] THEN toupper(s[1]) ELSE tolower(s[1])]

(***************************************************************************)
(* ToString(const EnergyMeasure &value, int w, char c, bool left)          *)
(***************************************************************************)

\* The switch of EnergyMeasure.h:113-169: the literal assigned to str.
CanonicalName(v) ==
  CASE v = EM_JE                         -> <<"J","E">>
    [] v = EM_CC                         -> <<"C","C">>
    [] v = EM_MI                         -> <<"M","I">>
    [] v = EM_NMI                        -> <<"N","M","I">>
    [] v = EM_SSD                        -> <<"S","S","D">>
    [] v = EM_CR_XY                      -> <<"C","R","_","X","Y">>
    [] v = EM_CR_YX                      -> <<"C","R","_","Y","X">>
    [] v = EM_LC                         -> <<"L","C">>
    [] v = EM_K                          -> <<"K">>
    [] v = EM_ML                         -> <<"M","L">>
    [] v = EM_NGF_COS                    -> <<"N","G","F","_","C","O","S">>
    [] v = EM_LNCC                       -> <<"L","N","C","C">>
    [] v = EM_FRE                        -> <<"F","R","E">>
    [] v = EM_CorrespondenceDistance     -> <<"P","C","D">>
    [] v = EM_CurrentsDistance           -> <<"C","u","r","r","e","n","t","s","D","i","s","t","a","n","c","e">>
    [] v = EM_VarifoldDistance           -> <<"V","a","r","i","f","o","l","d","D","i","s","t","a","n","c","e">>
    [] v = EM_BalloonForce               -> <<"B","a","l","l","o","o","n","F","o","r","c","e">>
    [] v = EM_ImageEdgeForce             -> <<"I","m","a","g","e","E","d","g","e","F","o","r","c","e">>
    [] v = EM_ImplicitSurfaceDistance    -> <<"I","m","p","l","i","c","i","t","S","u","r","f","a","c","e","D","i","s","t","a","n","c","e">>
    [] v = EM_ImplicitSurfaceSpringForce -> <<"I","m","p","l","i","c","i","t","S","u","r","f","a","c","e","S","p","r","i","n","g","F","o","r","c","e">>
    [] v = EM_MetricDistortion           -> <<"M","e","t","r","i","c","D","i","s","t","o","r","t","i","o","n">>
    [] v = EM_Stretching                 -> <<"S","t","r","e","t","c","h","i","n","g">>
    [] v = EM_Curvature                  -> <<"C","u","r","v","a","t","u","r","e">>
    [] v = EM_QuadraticCurvature         -> <<"Q","u","a","d","r","a","t","i","c","C","u","r","v","a","t","u","r","e">>
    [] v = EM_NonSelfIntersection        -> <<"N","S","I">>
    [] v = EM_RepulsiveForce             -> <<"R","e","p","u","l","s","i","o","n">>
    [] v = EM_InflationForce             -> <<"I","n","f","l","a","t","i","o","n">>
    [] v = EM_SpringForce                -> <<"S","p","r","i","n","g">>
    [] v = EM_BendingEnergy              -> <<"B","E">>
    [] v = EM_VolumePreservation         -> <<"V","P">>
    [] v = EM_TopologyPreservation       -> <<"T","P">>
    [] v = EM_Sparsity                   -> <<"S","p","a","r","s","i","t","y">>
    [] v = EM_L0Norm                     -> <<"L","0">>
    [] v = EM_L1Norm                     -> <<"L","1">>
    [] v = EM_L2Norm                     -> <<"L","2">>
    [] v = EM_SqLogDetJac                -> <<"S","q","L","o","g","D","e","t","J","a","c">>
    [] v = EM_MinDetJac                  -> <<"M","i","n","D","e","t","J","a","c">>
    [] OTHER -> <<"U","n","k","n","o","w","n">>
\* A canonical name given to a second enumerator as well.
ToStringSharedName(v) ==
  IF v = EM_CorrespondenceDistance THEN CanonicalName(EM_FRE)
  ELSE CanonicalName(v)

\* An enumerator without a case of its own, falling to the default.
ToStringMissingCase(v) ==
  IF v = EM_MinDetJac THEN CanonicalName(EM_Unknown) ELSE CanonicalName(v)

\* What ToString(value) returns: it is called with the default width 0, under
\* which ToString(str, w, c, left) of line 170 returns str without padding.
ToString(v) == CanonicalName(v)

(***************************************************************************)
(* FromString(const char *str, EnergyMeasure &value)                       *)
(***************************************************************************)

\* The similarity aliases compared without regard to letter case.
AliasSIMIgnoringCase(s, v) ==
  IF v # EM_Unknown THEN v
  ELSE IF FoldCase(s) = FoldCase(<<"N","C","C">>) THEN EM_LNCC
  ELSE IF FoldCase(s) = FoldCase(<<"L","C","C">>) THEN EM_LNCC
  ELSE v

\* Alternative names for image (dis-)similarity measures (EnergyMeasure.h:182-185)
AliasSIM(s, v) ==
  IF v # EM_Unknown THEN v
  ELSE IF s = <<"N","C","C">> THEN EM_LNCC
  ELSE IF s = <<"L","C","C">> THEN EM_LNCC
  ELSE v

\* Alternative names for point set distance measures (EnergyMeasure.h:189-211)
AliasPDM(s, v) ==
  IF v # EM_Unknown THEN v
  ELSE IF \/ s = <<"F","i","d","u","c","i","a","l"," ","R","e","g","i","s","t","r","a","t","i","o","n"," ","E","r","r","o","r">>
          \/ s = <<"F","i","d","u","c","i","a","l"," ","r","e","g","i","s","t","r","a","t","i","o","n"," ","e","r","r","o","r">>
          \/ s = <<"F","i","d","u","c","i","a","l"," ","E","r","r","o","r">>
          \/ s = <<"F","i","d","u","c","i","a","l"," ","e","r","r","o","r">>
          \/ s = <<"L","a","n","d","m","a","r","k"," ","R","e","g","i","s","t","r","a","t","i","o","n"," ","E","r","r","o","r">>
          \/ s = <<"L","a","n","d","m","a","r","k"," ","r","e","g","i","s","t","r","a","t","i","o","n"," ","e","r","r","o","r">>
          \/ s = <<"L","a","n","d","m","a","r","k"," ","E","r","r","o","r">>
          \/ s = <<"L","a","n","d","m","a","r","k"," ","e","r","r","o","r">>
       THEN EM_FRE
  ELSE IF \/ s = <<"P","o","i","n","t"," ","C","o","r","r","e","s","p","o","n","d","e","n","c","e"," ","D","i","s","t","a","n","c","e">>
          \/ s = <<"P","o","i","n","t"," ","c","o","r","r","e","s","p","o","n","d","e","n","c","e"," ","d","i","s","t","a","n","c","e">>
          \/ s = <<"C","o","r","r","e","s","p","o","n","d","e","n","c","e"," ","D","i","s","t","a","n","c","e">>
          \/ s = <<"C","o","r","r","e","s","p","o","n","d","e","n","c","e"," ","d","i","s","t","a","n","c","e">>
       THEN EM_CorrespondenceDistance
  ELSE IF \/ s = <<"C","u","r","r","e","n","t","s"," ","d","i","s","t","a","n","c","e">>
          \/ s = <<"C","u","r","r","e","n","t","s"," ","D","i","s","t","a","n","c","e">>
       THEN EM_CurrentsDistance
  ELSE IF \/ s = <<"V","a","r","i","f","o","l","d"," ","d","i","s","t","a","n","c","e">>
          \/ s = <<"V","a","r","i","f","o","l","d"," ","D","i","s","t","a","n","c","e">>
       THEN EM_VarifoldDistance
  ELSE v

\* Alternative names for external point set forces (EnergyMeasure.h:215-217)
AliasEFT(s, v) ==
  IF v # EM_Unknown THEN v
  ELSE IF s = <<"E","d","g","e","F","o","r","c","e">> THEN EM_ImageEdgeForce
  ELSE v

\* Alternative names for internal point set forces (EnergyMeasure.h:221-231)
AliasIFT(s, v) ==
  IF v # EM_Unknown THEN v
  ELSE IF s = <<"E","d","g","e","L","e","n","g","t","h">> THEN EM_Stretching
  ELSE IF s = <<"M","e","t","r","i","c","D","i","s","t","o","r","t","i","o","n">> THEN EM_MetricDistortion
  ELSE IF s = <<"B","e","n","d","i","n","g">> THEN EM_Curvature
  ELSE IF s = <<"S","u","r","f","a","c","e","B","e","n","d","i","n","g">> THEN EM_Curvature
  ELSE IF s = <<"S","u","r","f","a","c","e","C","u","r","v","a","t","u","r","e">> THEN EM_Curvature
  ELSE IF s = <<"R","e","p","u","l","s","i","v","e","F","o","r","c","e">> THEN EM_RepulsiveForce
  ELSE IF s = <<"N","o","n","S","e","l","f","I","n","t","e","r","s","e","c","t","i","o","n">> THEN EM_NonSelfIntersection
  ELSE IF s = <<"I","n","f","l","a","t","i","o","n","F","o","r","c","e">> THEN EM_InflationForce
  ELSE IF s = <<"S","u","r","f","a","c","e","I","n","f","l","a","t","i","o","n">> THEN EM_InflationForce
  ELSE v

\* Alternative names for transformation regularization terms (EnergyMeasure.h:235-238)
AliasCM(s, v) ==
  IF v # EM_Unknown THEN v
  ELSE IF s = <<"J","A","C">> THEN EM_SqLogDetJac
  ELSE IF s = <<"M","i","n","J","a","c">> THEN EM_MinDetJac
  ELSE v

\* Every string literal the alias tables compare against (EnergyMeasure.h:183-237).
AliasNames ==
  { <<"N","C","C">>,
    <<"L","C","C">>,
    <<"F","i","d","u","c","i","a","l"," ","R","e","g","i","s","t","r","a","t","i","o","n"," ","E","r","r","o","r">>,
    <<"F","i","d","u","c","i","a","l"," ","r","e","g","i","s","t","r","a","t","i","o","n"," ","e","r","r","o","r">>,
    <<"F","i","d","u","c","i","a","l"," ","E","r","r","o","r">>,
    <<"F","i","d","u","c","i","a","l"," ","e","r","r","o","r">>,
    <<"L","a","n","d","m","a","r","k"," ","R","e","g","i","s","t","r","a","t","i","o","n"," ","E","r","r","o","r">>,
    <<"L","a","n","d","m","a","r","k"," ","r","e","g","i","s","t","r","a","t","i","o","n"," ","e","r","r","o","r">>,
    <<"L","a","n","d","m","a","r","k"," ","E","r","r","o","r">>,
    <<"L","a","n","d","m","a","r","k"," ","e","r","r","o","r">>,
    <<"P","o","i","n","t"," ","C","o","r","r","e","s","p","o","n","d","e","n","c","e"," ","D","i","s","t","a","n","c","e">>,
    <<"P","o","i","n","t"," ","c","o","r","r","e","s","p","o","n","d","e","n","c","e"," ","d","i","s","t","a","n","c","e">>,
    <<"C","o","r","r","e","s","p","o","n","d","e","n","c","e"," ","D","i","s","t","a","n","c","e">>,
    <<"C","o","r","r","e","s","p","o","n","d","e","n","c","e"," ","d","i","s","t","a","n","c","e">>,
    <<"C","u","r","r","e","n","t","s"," ","d","i","s","t","a","n","c","e">>,
    <<"C","u","r","r","e","n","t","s"," ","D","i","s","t","a","n","c","e">>,
    <<"V","a","r","i","f","o","l","d"," ","d","i","s","t","a","n","c","e">>,
    <<"V","a","r","i","f","o","l","d"," ","D","i","s","t","a","n","c","e">>,
    <<"E","d","g","e","F","o","r","c","e">>,
    <<"E","d","g","e","L","e","n","g","t","h">>,
    <<"M","e","t","r","i","c","D","i","s","t","o","r","t","i","o","n">>,
    <<"B","e","n","d","i","n","g">>,
    <<"S","u","r","f","a","c","e","B","e","n","d","i","n","g">>,
    <<"S","u","r","f","a","c","e","C","u","r","v","a","t","u","r","e">>,
    <<"R","e","p","u","l","s","i","v","e","F","o","r","c","e">>,
    <<"N","o","n","S","e","l","f","I","n","t","e","r","s","e","c","t","i","o","n">>,
    <<"I","n","f","l","a","t","i","o","n","F","o","r","c","e">>,
    <<"S","u","r","f","a","c","e","I","n","f","l","a","t","i","o","n">>,
    <<"J","A","C">>,
    <<"M","i","n","J","a","c">> }
\* The while loop of EnergyMeasure.h:244-247, entered with the candidate v.
RECURSIVE ScanNames(_, _)
ScanNames(s, v) ==
  IF v = EM_Unknown THEN v
  ELSE IF ToString(v) = s THEN v
  ELSE ScanNames(s, v - 1)

\* Convert default names of energy measures (EnergyMeasure.h:242-248)
DefaultNames(s, v) ==
  IF v # EM_Unknown THEN v
  ELSE ScanNames(s, EM_Last - 1)

\* FromString without the assignment of line 178: the tables and the scan
\* start from whatever the output argument held.
FromStringValueWithoutReset(s, v0) ==
  DefaultNames(s, AliasCM(s, AliasIFT(s, AliasEFT(s,
    AliasPDM(s, AliasSIM(s, v0))))))

\* The value FromString leaves in its output argument, which held v0 at the
\* call: line 178 resets it, then the five alias tables and the scan run.
FromStringValue(s, v0) ==
  LET v == EM_Unknown
  IN  DefaultNames(s, AliasCM(s, AliasIFT(s, AliasEFT(s,
        AliasPDM(s, AliasSIM(s, v))))))

\* The flag FromString returns, from the value it has set (EnergyMeasure.h:250).
FromStringResult(v) == v # EM_Unknown

(***************************************************************************)
(* The texts handed to FromString: every canonical name, every alias,      *)
(* three case variants of each, and texts that name nothing.               *)
(***************************************************************************)
CanonicalNames == { ToString(e) : e \in Selectable }

OtherTexts ==
  { <<>>,
    <<"U","n","k","n","o","w","n">>,
    <<"n","o","t","-","a","-","r","e","a","l","-","n","a","m","e">>,
    <<"E","M","_","S","S","D">>,
    <<"S","S","D"," ">>,
    <<"S","S">> }

Texts ==
  LET named == CanonicalNames \cup AliasNames
  IN  named \cup OtherTexts
        \cup { FoldCase(t) : t \in named }
        \cup { UpperCase(t) : t \in named }
        \cup { FlipFirst(t) : t \in named }

(***************************************************************************)
(* Energy measure conversions as a state machine: any caller may convert   *)
(* any text or any enumeration value, in any order.                        *)
(***************************************************************************)
InitEM ==
  /\ value \in EnergyMeasure    \* whatever the caller's variable held before
  /\ params = <<>>
  /\ obj = NoObject
  /\ heap = NoHeap
  /\ call = [op |-> "init"]

\* ok = FromString(text, value)
CallFromString(text) ==
  /\ value' = FromStringValue(text, value)
  /\ call' = [op |-> "FromString", str |-> text,
              ok |-> FromStringResult(value')]
  /\ UNCHANGED <<params, obj, heap>>

\* str = ToString(value)
CallToString ==
  /\ call' = [op |-> "ToString", value |-> value, str |-> ToString(value)]
  /\ UNCHANGED <<value, params, obj, heap>>

NextEM ==
  \/ \E text \in Texts : CallFromString(text)
  \/ CallToString

SpecEM == InitEM /\ [][NextEM]_vars

(***************************************************************************)
(* Object.h: ParameterList is Array<Pair<string, string> >, an ordered     *)
(* sequence of (first, second) pairs.  An iterator is a position 1..Len,    *)
(* and end() is the position Len + 1.                                       *)
(***************************************************************************)
MaxLen == 2      \* longest list a caller starts from
MaxOther == 2    \* longest list merged into another

make_pair(first, second) == [first |-> first, second |-> second]

end(list) == Len(list) + 1

\* The while loop of Find: advance while not at end() and the name differs.
RECURSIVE FindFrom(_, _, _)
FindFrom(list, name, it) ==
  IF it # end(list) /\ list[it].first # name
  THEN FindFrom(list, name, it + 1)
  ELSE it

\* The position of the last entry named name, or end().
RECURSIVE FindLastFrom(_, _, _)
FindLastFrom(list, name, it) ==
  IF it = 0 THEN end(list)
  ELSE IF list[it].first = name THEN it
  ELSE FindLastFrom(list, name, it - 1)

FindLast(list, name) == FindLastFrom(list, name, Len(list))

\* Find(params, name): Object.h:82-87 and, non-const, 91-96.
Find(list, name) == FindFrom(list, name, 1)

Contains(list, name) == Find(list, name) # end(list)

Get(list, name) ==
  LET pos == Find(list, name)
  IN  IF pos = end(list) THEN <<>> ELSE list[pos].second

\* The generic ToString of an int (mirtk/String.h): its decimal digits.
Digit(d) ==
  CASE d = 0 -> "0" [] d = 1 -> "1" [] d = 2 -> "2" [] d = 3 -> "3"
    [] d = 4 -> "4" [] d = 5 -> "5" [] d = 6 -> "6" [] d = 7 -> "7"
    [] d = 8 -> "8" [] d = 9 -> "9"

RECURSIVE ToStringInt(_)
ToStringInt(n) ==
  IF n < 10 THEN <<Digit(n)>>
  ELSE Append(ToStringInt(n \div 10), Digit(n % 10))

\* Insert with the new entry put first instead of last.
InsertAtFront(list, name, val) ==
  LET pos == Find(list, name)
  IN  IF pos = end(list)
      THEN <<make_pair(name, val)>> \o list
      ELSE [list EXCEPT ![pos].second = val]

\* Insert that appends without looking the name up.
InsertAlwaysAppends(list, name, val) == Append(list, make_pair(name, val))

\* Insert(ParameterList &, string name, string value): Object.h:144-154.
InsertString(list, name, val) ==
  LET pos == Find(list, name)
  IN  IF pos = end(list)
      THEN Append(list, make_pair(name, val))
      ELSE [list EXCEPT ![pos].second = val]

\* template <class T> Insert(ParameterList &, string name, T value), T = int:
\* Object.h:116-126.
InsertT(list, name, val) ==
  LET pos == Find(list, name)
  IN  IF pos = end(list)
      THEN Append(list, make_pair(name, ToStringInt(val)))
      ELSE [list EXCEPT ![pos].second = ToStringInt(val)]

\* The merged name with every letter of the original name lowercased.
PrefixedNameAllLower(prefix, first) ==
  prefix \o <<" ">> \o FoldCase(first)

\* The merged name keeping only the lowercased first character of the name.
PrefixedNameFirstOnly(prefix, first) ==
  prefix \o <<" ">> \o <<tolower(first[1])>>

\* Object.h:165-167: name = it->first; name[0] = ::tolower(name[0]);
\* string(prefix) + " " + name.  Names are not empty.
PrefixedName(prefix, first) ==
  LET name == [first EXCEPT ![1] = tolower(first[1])]
  IN  prefix \o <<" ">> \o name

\* A prefix argument: the null pointer, or a pointer to a C string.
NULL == [null |-> TRUE, str |-> <<>>]

CString(s) == [null |-> FALSE, str |-> s]

\* The two for loops of Object.h:162-173, from the iterator it on.
RECURSIVE InsertFrom(_, _, _, _)
InsertFrom(list, other, prefix, it) ==
  IF it = end(other) THEN list
  ELSE IF ~prefix.null
  THEN InsertFrom(InsertString(list, PrefixedName(prefix.str, other[it].first),
                               other[it].second),
                  other, prefix, it + 1)
  ELSE InsertFrom(InsertString(list, other[it].first, other[it].second),
                  other, prefix, it + 1)

\* Insert(ParameterList &params, const ParameterList &other, const char *prefix)
InsertList(list, other, prefix) == InsertFrom(list, other, prefix, 1)

\* Remove that erases the last entry of the list when the name is found.
RemoveBack(list, name) ==
  IF Find(list, name) # end(list) THEN SubSeq(list, 1, Len(list) - 1) ELSE list

\* Remove(ParameterList &, string name): Object.h:179-184.
Remove(list, name) ==
  LET pos == Find(list, name)
  IN  IF pos # end(list)
      THEN SubSeq(list, 1, pos - 1) \o SubSeq(list, pos + 1, Len(list))
      ELSE list

(***************************************************************************)
(* The names, values and lists the helpers are called with.                *)
(***************************************************************************)
OtherNames ==
  { <<"R","a","d","i","u","s">>, <<"r","a","d","i","u","s">>, <<"R","A">> }

Prefixes == { NULL, CString(<<"I","n","n","e","r">>) }

\* The names of the merged list: those of the source and their prefixed forms.
Names ==
  OtherNames \cup
    { PrefixedName(p.str, n) : p \in Prefixes \ {NULL}, n \in OtherNames }

Values == { <<"3">>, <<"7">> }

IntValues == { 3, 12 }

ListsOf(S, n) == UNION { [1..k -> S] : k \in 0..n }

Pairs(N, V) == { make_pair(n, v) : n \in N, v \in V }

(***************************************************************************)
(* The list helpers as a state machine: a caller holds one list, built in  *)
(* any way an Array can be (names may repeat), and makes one call on it.   *)
(***************************************************************************)
InitList ==
  /\ value = EM_Unknown
  /\ params \in ListsOf(Pairs(Names, Values), MaxLen)
  /\ obj = NoObject
  /\ heap = NoHeap
  /\ call = [op |-> "init"]

\* Insert(params, name, val) with a string value
CallInsert(name, val) ==
  /\ call.op = "init"
  /\ params' = InsertString(params, name, val)
  /\ call' = [op |-> "Insert", name |-> name, T |-> "string", val |-> val,
              before |-> params]
  /\ UNCHANGED <<value, obj, heap>>

\* Insert(params, name, val) with an int value
CallInsertT(name, val) ==
  /\ call.op = "init"
  /\ params' = InsertT(params, name, val)
  /\ call' = [op |-> "Insert", name |-> name, T |-> "int", val |-> val,
              before |-> params]
  /\ UNCHANGED <<value, obj, heap>>

\* Insert(params, other, prefix), other being another list than params
CallInsertList(other, prefix) ==
  /\ call.op = "init"
  /\ params' = InsertList(params, other, prefix)
  /\ call' = [op |-> "InsertList", other |-> other, prefix |-> prefix,
              before |-> params]
  /\ UNCHANGED <<value, obj, heap>>

\* Remove(params, name)
CallRemove(name) ==
  /\ call.op = "init"
  /\ params' = Remove(params, name)
  /\ call' = [op |-> "Remove", name |-> name, before |-> params]
  /\ UNCHANGED <<value, obj, heap>>

NextList ==
  \/ \E name \in Names, val \in Values : CallInsert(name, val)
  \/ \E name \in Names, val \in IntValues : CallInsertT(name, val)
  \/ \E other \in ListsOf(Pairs(OtherNames, Values), MaxOther), prefix \in Prefixes :
       CallInsertList(other, prefix)
  \/ \E name \in Names : CallRemove(name)

SpecList == InitList /\ [][NextList]_vars

(***************************************************************************)
(* The list helpers called one after the other on a list that starts       *)
(* empty and is changed by nothing else.  A call that can add entries is   *)
(* made while the list holds at most MaxLen of them.                       *)
(***************************************************************************)
InitHelpers ==
  /\ value = EM_Unknown
  /\ params = <<>>
  /\ obj = NoObject
  /\ heap = NoHeap
  /\ call = [op |-> "init"]

\* Insert(params, name, val) with a string value
NextInsert(name, val) ==
  /\ Len(params) <= MaxLen
  /\ params' = InsertString(params, name, val)
  /\ call' = [op |-> "Insert"]
  /\ UNCHANGED <<value, obj, heap>>

\* Insert(params, name, val) with an int value
NextInsertT(name, val) ==
  /\ Len(params) <= MaxLen
  /\ params' = InsertT(params, name, val)
  /\ call' = [op |-> "InsertT"]
  /\ UNCHANGED <<value, obj, heap>>

\* Insert(params, other, prefix), other being another list than params
NextInsertList(other, prefix) ==
  /\ Len(params) <= MaxLen
  /\ params' = InsertList(params, other, prefix)
  /\ call' = [op |-> "InsertList"]
  /\ UNCHANGED <<value, obj, heap>>

\* Remove(params, name)
NextRemove(name) ==
  /\ params' = Remove(params, name)
  /\ call' = [op |-> "Remove"]
  /\ UNCHANGED <<value, obj, heap>>

NextHelpers ==
  \/ \E name \in Names, val \in Values : NextInsert(name, val)
  \/ \E name \in Names : NextInsertT(name, 3)
  \/ \E other \in ListsOf(Pairs(OtherNames, Values), MaxOther), prefix \in Prefixes :
       NextInsertList(other, prefix)
  \/ \E name \in Names : NextRemove(name)

SpecHelpers == InitHelpers /\ [][NextHelpers]_vars

(***************************************************************************)
(* class Object (Object.h:49-74).  Object has no data members and its Set  *)
(* recognizes no name; a class derived from it overrides Set for the       *)
(* attributes it declares.  The derived class modelled here declares the   *)
(* two string attributes named by Recognized.                              *)
(***************************************************************************)
MaxParam == 2    \* longest list handed to Object::Parameter

Recognized == { <<"R","a","d","i","u","s">>, <<"R","A">> }

\* The attributes as the derived class's constructor leaves them.
Constructed(class) ==
  [class |-> class, attr |-> [n \in Recognized |-> <<"0">>]]

\* virtual bool Object::Set(const char *, const char *) { return false; }
ObjectSet(o, name, val) == [obj |-> o, ret |-> FALSE]

\* The override of the derived class: a recognized name is applied and
\* reported, any other name is reported as a failure.
DerivedSet(o, name, val) ==
  IF name \in Recognized
  THEN [obj |-> [o EXCEPT !.attr[name] = val], ret |-> TRUE]
  ELSE [obj |-> o, ret |-> FALSE]

\* this->Set(name, value): the virtual call of Object.h:71.
Set(o, name, val) ==
  IF o.class = "Derived" THEN DerivedSet(o, name, val) ELSE ObjectSet(o, name, val)

\* The for loop of Object.h:70-72 from the iterator it on; run holds the
\* object and the Set calls made so far, each with what it returned.
RECURSIVE ParameterFrom(_, _, _)
ParameterFrom(run, param, it) ==
  IF it = end(param) THEN run
  ELSE LET r == Set(run.obj, param[it].first, param[it].second)
       IN  ParameterFrom(
             [obj |-> r.obj,
              sets |-> Append(run.sets, [name |-> param[it].first,
                                         value |-> param[it].second,
                                         ret |-> r.ret])],
             param, it + 1)

\* The loop left at the first Set call that returns false.
RECURSIVE ParameterUntilFailureFrom(_, _, _)
ParameterUntilFailureFrom(run, param, it) ==
  IF it = end(param) THEN run
  ELSE LET r == Set(run.obj, param[it].first, param[it].second)
           next == [obj |-> r.obj,
                    sets |-> Append(run.sets, [name |-> param[it].first,
                                               value |-> param[it].second,
                                               ret |-> r.ret])]
       IN  IF r.ret THEN ParameterUntilFailureFrom(next, param, it + 1) ELSE next

ParameterUntilFailure(o, param) ==
  ParameterUntilFailureFrom([obj |-> o, sets |-> <<>>], param, 1)

\* void Object::Parameter(const ParameterList &param): Object.h:69-73.
Parameter(o, param) == ParameterFrom([obj |-> o, sets |-> <<>>], param, 1)

(***************************************************************************)
(* Object::Parameter as a state machine: an object of either class is      *)
(* constructed, then lists are applied to it one after the other.          *)
(***************************************************************************)
InitObject ==
  /\ value = EM_Unknown
  /\ params = <<>>
  /\ obj \in { Constructed("Object"), Constructed("Derived") }
  /\ heap = NoHeap
  /\ call = [op |-> "init"]

\* obj.Parameter(param)
CallParameter(param) ==
  /\ obj' = Parameter(obj, param).obj
  /\ call' = [op |-> "Parameter", param |-> param, before |-> obj,
              sets |-> Parameter(obj, param).sets]
  /\ UNCHANGED <<value, params, heap>>

NextObject ==
  \E param \in ListsOf(Pairs(OtherNames, Values), MaxParam) : CallParameter(param)

SpecObject == InitObject /\ [][NextObject]_vars

(***************************************************************************)
(* mirtkDefineComponentMacro(access, type, name) (Object.h:323-333): the   *)
(* member type *_name with its setter name(type *arg) and its getters.     *)
(* A pointer is 0 (null) or the number of an instance created with new.    *)
(***************************************************************************)
MaxInstances == 4   \* instances the caller creates with new
MaxCalls == 8       \* setter calls made on one owner

NullPointer == 0

Instances == 1..MaxInstances

\* delete p: nothing for a null pointer, else the instance is destroyed, once
\* more than it had been.
Delete(h, p) ==
  IF p = NullPointer THEN h
  ELSE [h EXCEPT ![p].deleted = @ + 1]

\* new type: the next instance not yet created.
New(h) == CHOOSE i \in Instances :
            /\ ~h[i].allocated
            /\ \A j \in Instances : j < i => h[j].allocated

\* The owner after name(arg): { delete _name; _name = arg; }
SetterObject(o, arg) == [o EXCEPT !._name = arg]

\* The heap after name(arg): { delete _name; _name = arg; }
SetterHeap(o, h) == Delete(h, o._name)

\* type *name(): the getter.
Getter(o) == o._name

(***************************************************************************)
(* The owner of one component as a state machine.  Its constructor sets    *)
(* the member to null.  The setter is called with a new instance, with     *)
(* null, or with the pointer the getter returns.  Deleting an instance a   *)
(* second time is undefined behaviour: the model records it and the owner   *)
(* makes no further call.                                                   *)
(***************************************************************************)
InitComponent ==
  /\ value = EM_Unknown
  /\ params = <<>>
  /\ obj = [class |-> "Owner", _name |-> NullPointer]
  /\ heap = [i \in Instances |-> [allocated |-> FALSE, deleted |-> 0]]
  /\ call = [op |-> "init", calls |-> 0]

\* No instance has been deleted twice and the owner may be called again.
MayCall ==
  /\ call.calls < MaxCalls
  /\ \A i \in Instances : heap[i].deleted <= 1

\* owner.name(arg), the heap being h at the call
CallSetter(arg, h) ==
  /\ obj' = SetterObject(obj, arg)
  /\ heap' = SetterHeap(obj, h)
  /\ call' = [op |-> "name", arg |-> arg, held |-> obj._name,
              calls |-> call.calls + 1]
  /\ UNCHANGED <<value, params>>

\* owner.name(new type)
SetNew ==
  /\ MayCall
  /\ \E i \in Instances : ~heap[i].allocated
  /\ CallSetter(New(heap), [heap EXCEPT ![New(heap)].allocated = TRUE])

\* owner.name(NULL)
SetNull ==
  /\ MayCall
  /\ CallSetter(NullPointer, heap)

\* owner.name(owner.name())
SetSame ==
  /\ MayCall
  /\ CallSetter(Getter(obj), heap)

NextComponent == SetNew \/ SetNull \/ SetSame

SpecComponent == InitComponent /\ [][NextComponent]_vars

(***************************************************************************)
(* Properties of the energy measure conversions, checked under SpecEM.     *)
(***************************************************************************)
UnknownName == <<"U","n","k","n","o","w","n">>

\* C1: for every selectable value e, FromString(ToString(e)) returns true and
\* sets the output value to e.
C1_RoundTrip ==
  \A e \in Selectable :
    (call.op = "FromString" /\ call.str = ToString(e)) => (call.ok /\ value = e)

C1_Witness ==
  /\ call.op = "FromString"
  /\ call.str = <<"L","N","C","C">>
  /\ call.ok
  /\ value = EM_LNCC

\* C2: whenever FromString returns true, the output value is selectable: it
\* lies strictly between the Begin and End sentinel of one category.
C2_SuccessIsSelectable ==
  (call.op = "FromString" /\ call.ok) => value \in Selectable

\* C3: for every text that is neither an alias nor the canonical name of a
\* selectable value, FromString returns false and leaves EM_Unknown.
C3_UnknownTextFails ==
  (call.op = "FromString" /\ call.str \notin AliasNames \cup CanonicalNames)
    => (~call.ok /\ value = EM_Unknown)

\* The spellings of the Fiducial/Landmark (Registration) Error alias.
FRENames ==
  { <<"F","i","d","u","c","i","a","l"," ","R","e","g","i","s","t","r","a","t","i","o","n"," ","E","r","r","o","r">>,
    <<"F","i","d","u","c","i","a","l"," ","r","e","g","i","s","t","r","a","t","i","o","n"," ","e","r","r","o","r">>,
    <<"F","i","d","u","c","i","a","l"," ","E","r","r","o","r">>,
    <<"F","i","d","u","c","i","a","l"," ","e","r","r","o","r">>,
    <<"L","a","n","d","m","a","r","k"," ","R","e","g","i","s","t","r","a","t","i","o","n"," ","E","r","r","o","r">>,
    <<"L","a","n","d","m","a","r","k"," ","r","e","g","i","s","t","r","a","t","i","o","n"," ","e","r","r","o","r">>,
    <<"L","a","n","d","m","a","r","k"," ","E","r","r","o","r">>,
    <<"L","a","n","d","m","a","r","k"," ","e","r","r","o","r">> }

\* C4: every alias resolves, with success, to a value that the canonical name
\* of that value resolves to as well; "NCC" and "LCC" give EM_LNCC, the eight
\* Fiducial/Landmark (Registration) Error spellings give EM_FRE; and a text
\* that is no alias and no canonical name, but differs from one only in letter
\* case, does not resolve.
C4_AliasResolution ==
  call.op = "FromString" =>
    /\ call.str \in AliasNames =>
          /\ call.ok
          /\ value \in Selectable
          /\ FromStringValue(ToString(value), value) = value
    /\ call.str \in {<<"N","C","C">>, <<"L","C","C">>} => value = EM_LNCC
    /\ call.str \in FRENames => value = EM_FRE
    /\ ( /\ call.str \notin AliasNames \cup CanonicalNames
         /\ \E t \in AliasNames \cup CanonicalNames : FoldCase(t) = FoldCase(call.str) )
        => (~call.ok /\ value = EM_Unknown)

C4_Witness ==
  /\ call.op = "FromString"
  /\ call.str = <<"L","a","n","d","m","a","r","k"," ","e","r","r","o","r">>
  /\ call.ok
  /\ value = EM_FRE

\* C5: ToString maps every selectable value to a name of its own, which is not
\* "Unknown", and every other value (EM_Unknown, the ten category sentinels and
\* EM_Last) to "Unknown".
C5_ToStringTotal ==
  call.op = "ToString" =>
    /\ call.value \in Selectable =>
          /\ call.str # UnknownName
          /\ \A e \in Selectable \ {call.value} : ToString(e) # call.str
    /\ call.value \notin Selectable => call.str = UnknownName

C5_Witness ==
  /\ call.op = "ToString"
  /\ call.value = CM_End
  /\ call.str = UnknownName

\* C12: what FromString returns does not depend on what the output argument
\* held before the call (it is what a call with EM_Unknown there, or EM_Last
\* there, gives), and the flag agrees with the output: true exactly when the
\* value is not EM_Unknown, so on every failure the value is EM_Unknown.
C12_FlagAgreesWithValue ==
  call.op = "FromString" =>
    /\ value = FromStringValue(call.str, EM_Unknown)
    /\ value = FromStringValue(call.str, EM_Last)
    /\ call.ok <=> value # EM_Unknown
    /\ ~call.ok => value = EM_Unknown

C12_Witness ==
  /\ call.op = "FromString"
  /\ call.str = <<"n","o","t","-","a","-","r","e","a","l","-","n","a","m","e">>
  /\ ~call.ok
  /\ value = EM_Unknown

(***************************************************************************)
(* Properties of the parameter list helpers, checked under SpecList.       *)
(***************************************************************************)

\* The positions of the entries of list named name.
Positions(list, name) == { i \in 1..Len(list) : list[i].first = name }

\* The first of a non-empty set of positions.
First(P) == CHOOSE i \in P : \A j \in P : i <= j

\* format(v) of the value handed to the last Insert: a string as it is, the
\* int 3 as "3" and the int 12 as "12".
Format(c) ==
  IF c.T = "string" THEN c.val
  ELSE IF c.val = 3 THEN <<"3">>
  ELSE <<"1","2">>

\* C6: Insert(L, n, v) with n not in L appends exactly one entry (n, format(v))
\* at the end: the length grows by one, the earlier entries are kept in order,
\* Contains(L, n) is true and Get(L, n) is format(v).
C6_InsertAppends ==
  (call.op = "Insert" /\ Positions(call.before, call.name) = {}) =>
    /\ Len(params) = Len(call.before) + 1
    /\ SubSeq(params, 1, Len(call.before)) = call.before
    /\ params[Len(params)] = [first |-> call.name, second |-> Format(call)]
    /\ Contains(params, call.name)
    /\ Get(params, call.name) = Format(call)

C6_Witness ==
  /\ call.op = "Insert"
  /\ call.T = "int"
  /\ call.val = 12
  /\ Len(call.before) = 2
  /\ Positions(call.before, call.name) = {}
  /\ Len(params) = 3
  /\ params[3].second = <<"1","2">>

\* C7: Insert(L, n, v2) with n in L overwrites the value of the first entry
\* named n in place: the length, the position of that entry and all other
\* entries are unchanged, and Get(L, n) is format(v2).
C7_InsertOverwrites ==
  (call.op = "Insert" /\ Positions(call.before, call.name) # {}) =>
    LET i == First(Positions(call.before, call.name))
    IN  /\ Len(params) = Len(call.before)
        /\ params = [call.before EXCEPT ![i].second = Format(call)]
        /\ params[i].first = call.name
        /\ Get(params, call.name) = Format(call)

C7_Witness ==
  /\ call.op = "Insert"
  /\ Positions(call.before, call.name) = {1, 2}
  /\ call.before[1].second # Format(call)
  /\ call.before[2].second # Format(call)
  /\ params[1].second = Format(call)
  /\ params[2] = call.before[2]

\* C8 as stated: after Remove(L, n), Contains(L, n) is false, for every list;
\* and when n was absent, L is unchanged.
C8_RemoveThenAbsent ==
  call.op = "Remove" =>
    /\ ~Contains(params, call.name)
    /\ Positions(call.before, call.name) = {} => params = call.before

\* C8 as amended: Remove(L, n) deletes exactly the first entry named n and
\* keeps the others in order, so Contains(L, n) is false afterwards exactly
\* when L held at most one entry named n; when n was absent, L is unchanged.
C8_RemoveFirst ==
  call.op = "Remove" =>
    LET P == Positions(call.before, call.name)
    IN  /\ P # {} =>
             /\ Len(params) = Len(call.before) - 1
             /\ \A j \in 1..Len(params) :
                  params[j] = call.before[IF j < First(P) THEN j ELSE j + 1]
        /\ P = {} => params = call.before
        /\ ~Contains(params, call.name) <=> Cardinality(P) <= 1

C8_Witness ==
  /\ call.op = "Remove"
  /\ Len(call.before) = 2
  /\ Positions(call.before, call.name) = {1}
  /\ params = <<call.before[2]>>
  /\ ~Contains(params, call.name)

\* The key a source name is merged under: with a prefix, the prefix, a space
\* and the name with its first character lowercased; without, the name.
Key(prefix, n) ==
  IF prefix.null THEN n
  ELSE prefix.str \o <<" ">> \o <<tolower(Head(n))>> \o Tail(n)

\* One update-or-append step: the first entry named k takes the value v, or
\* the entry (k, v) is added at the end.
UpdateOrAppend(list, k, v) ==
  IF Positions(list, k) = {}
  THEN list \o << [first |-> k, second |-> v] >>
  ELSE [list EXCEPT ![First(Positions(list, k))].second = v]

\* The update-or-append steps for the first n entries of other, in order.
RECURSIVE Merged(_, _, _, _)
Merged(list, other, prefix, n) ==
  IF n = 0 THEN list
  ELSE UpdateOrAppend(Merged(list, other, prefix, n - 1),
                      Key(prefix, other[n].first), other[n].second)

\* C9: Insert(target, source, prefix) applies one update-or-append step per
\* source entry, in source order, under the key of that entry; merging
\* [("Radius","3")] into [] under "Inner" yields exactly [("Inner radius","3")].
C9_MergeWithPrefix ==
  call.op = "InsertList" =>
    /\ params = Merged(call.before, call.other, call.prefix, Len(call.other))
    /\ ( /\ call.before = <<>>
         /\ call.other = << [first |-> <<"R","a","d","i","u","s">>, second |-> <<"3">>] >>
         /\ call.prefix = CString(<<"I","n","n","e","r">>) )
       => params = << [first |-> <<"I","n","n","e","r"," ","r","a","d","i","u","s">>,
                       second |-> <<"3">>] >>

C9_Witness ==
  /\ call.op = "InsertList"
  /\ call.before = <<>>
  /\ call.other = << [first |-> <<"R","a","d","i","u","s">>, second |-> <<"3">>] >>
  /\ call.prefix = CString(<<"I","n","n","e","r">>)
  /\ params = << [first |-> <<"I","n","n","e","r"," ","r","a","d","i","u","s">>,
                  second |-> <<"3">>] >>

\* The last call merged a source under a prefix into an empty list.
MergedIntoEmpty ==
  /\ call.op = "InsertList"
  /\ ~call.prefix.null
  /\ call.before = <<>>

\* Every entry of the source is in the merged list, at the same position.
NoEntryLost ==
  /\ Len(params) = Len(call.other)
  /\ \A i \in 1..Len(call.other) : params[i].second = call.other[i].second

\* C15 as stated: for every source list whose names are pairwise distinct and
\* non-empty, merging it under a prefix into an empty target yields as many
\* entries as the source has, the i-th holding the i-th source value.
C15_MergeLosesNoEntry ==
  ( /\ MergedIntoEmpty
    /\ \A i, j \in 1..Len(call.other) :
         call.other[i].first = call.other[j].first => i = j )
  => NoEntryLost

\* C15 as amended: the same for every source list whose names are non-empty
\* and still pairwise distinct once the first character of each is lowercased.
C15_MergeLosesNoEntryUnlessFolded ==
  ( /\ MergedIntoEmpty
    /\ \A i, j \in 1..Len(call.other) :
         Key(call.prefix, call.other[i].first) = Key(call.prefix, call.other[j].first)
           => i = j )
  => NoEntryLost

C15_Witness ==
  /\ MergedIntoEmpty
  /\ call.other = << [first |-> <<"R","a","d","i","u","s">>, second |-> <<"3">>],
                     [first |-> <<"R","A">>, second |-> <<"7">>] >>
  /\ params = << [first |-> <<"I","n","n","e","r"," ","r","a","d","i","u","s">>,
                  second |-> <<"3">>],
                 [first |-> <<"I","n","n","e","r"," ","r","A">>, second |-> <<"7">>] >>

(***************************************************************************)
(* Properties of sequences of helper calls, checked under SpecHelpers.     *)
(***************************************************************************)

\* C13: starting from the empty list, after any sequence of Insert(name,
\* value), Insert(target, source[, prefix]) with the list as target, and
\* Remove(name) calls, no two entries of the list have the same name.
C13_NamesUnique ==
  \A i, j \in 1..Len(params) : params[i].first = params[j].first => i = j

\* A merge has brought a list of two entries to four, all of different names.
C13_Witness ==
  /\ call.op = "InsertList"
  /\ Len(params) = 4
  /\ Cardinality({ params[i].first : i \in 1..Len(params) }) = 4

(***************************************************************************)
(* Properties of Object::Parameter, checked under SpecObject.              *)
(***************************************************************************)

\* The last of a non-empty set of positions.
Last(P) == CHOOSE i \in P : \A j \in P : j <= i

\* C10: Object::Parameter(list) calls Set once per entry, in list order, and
\* goes on after a call that returns false: an entry with an unrecognized name
\* changes nothing, every entry with a recognized name is applied, a later one
\* overriding an earlier one of the same name; on an Object whose Set is the
\* root's, every call returns false and the object is unchanged.
C10_ParameterAppliesAll ==
  call.op = "Parameter" =>
    /\ Len(call.sets) = Len(call.param)
    /\ \A i \in 1..Len(call.param) :
         /\ call.sets[i].name = call.param[i].first
         /\ call.sets[i].value = call.param[i].second
         /\ call.sets[i].ret =
              (obj.class = "Derived" /\ call.param[i].first \in Recognized)
    /\ obj.class = call.before.class
    /\ obj.class = "Object" => obj = call.before
    /\ obj.class = "Derived" =>
         \A n \in Recognized :
           obj.attr[n] =
             IF Positions(call.param, n) = {} THEN call.before.attr[n]
             ELSE call.param[Last(Positions(call.param, n))].second

C10_Witness ==
  /\ call.op = "Parameter"
  /\ obj.class = "Derived"
  /\ call.param = << [first |-> <<"r","a","d","i","u","s">>, second |-> <<"3">>],
                     [first |-> <<"R","a","d","i","u","s">>, second |-> <<"7">>] >>
  /\ call.sets[1].ret = FALSE
  /\ call.sets[2].ret = TRUE
  /\ call.before.attr[<<"R","a","d","i","u","s">>] = <<"3">>
  /\ obj.attr[<<"R","a","d","i","u","s">>] = <<"7">>
  /\ obj.attr[<<"R","A">>] = call.before.attr[<<"R","A">>]

(***************************************************************************)
(* Properties of an owned component, checked under SpecComponent.          *)
(***************************************************************************)

\* C11: after any sequence of setter calls the attribute holds the last
\* argument, every instance that was installed and is no longer held has been
\* destroyed exactly once, and no instance has been destroyed twice.
C11_ReplacedDestroyedOnce ==
  call.op = "name" =>
    /\ Getter(obj) = call.arg
    /\ \A i \in Instances :
         /\ (heap[i].allocated /\ i # Getter(obj)) => heap[i].deleted = 1
         /\ heap[i].deleted <= 1

\* C14: after any sequence of setter calls, one that passes the pointer
\* already held included, the stored pointer is null or refers to an instance
\* that has not been destroyed.
C14_NeverDangling ==
  \/ Getter(obj) = NullPointer
  \/ heap[Getter(obj)].deleted = 0

=============================================================================
